---- MODULE Spec2Model ----
(***************************************************************************)
(* Model of the B-scan sweep launchers of gprMax:                          *)
(*   run_bscan_gpu_cpu.py  dynamic chunk scheduler and its --worker mode   *)
(*   run_bscan2mpi.py      static weighted launcher                        *)
(*   run_bscan.py          one engine run, merge, plot                     *)
(*   run_bscan_mute_gpus.py  one engine run, merge, mute estimate, plot    *)
(* Device identifiers (the stripped tokens of --gpus) are modelled by     *)
(* small integers; a chunk or range (r1, r2) is the tuple <<r1, r2>>.      *)
(***************************************************************************)
EXTENDS Integers, Sequences, FiniteSets, TLC

\* ---------------------------------------------------------------- bounds
MaxRuns == 4
MaxChunk == 3
MaxGpus == 2
MaxWeights == 4
MaxStaticRuns == 7

\* Device identifiers a --gpus list is drawn from (repeats allowed).
Devs == {0, 1}
\* Weights a --weights list is drawn from (positive).
WeightVals == {1, 2}
\* Exit statuses of one engine invocation (0 = success), within 0..255.
EngineRets == {0, 1, 2}
\* Exit statuses of the merge and plot collaborators.
CollabRets == {0, 3}

VARIABLES
    args,       \* parsed command line: mode, runs, chunk_size, gpus, weights, ...
    pc,         \* position of the launcher's main()
    k,          \* index of the for loop main() is in
    chunks,     \* deque of pending chunks (dynamic)
    active,     \* dict gpu -> (proc, (r1, r2)), in insertion order (dynamic)
    snapshot,   \* list(active.items()) of the current poll pass
    finished,   \* gpus found finished in the current poll pass
    gpu_ids,    \* resolved device list (static)
    ranges,     \* split_runs_by_weights result (static)
    procs,      \* list of launched process handles (static)
    rc,         \* accumulated status
    workers,    \* every OS process spawned by main(), by pid
    observed,   \* per pid: how often main() has seen its exit status
    emitted,    \* sh() requests made so far: "simulate" / "merge" / "plot"
    sh_ret,     \* return codes of the sh() requests made so far
    verdict,    \* outcome of the test of rc after the wait: "none" before it
    exit_code,  \* exit status of main(), -1 while it runs
    mute_ns,    \* run_bscan_mute_gpus: "None", "given" (--mute_ns) or "estimated"
    estimate,   \* run_bscan_mute_gpus: what get_mute_ns_from_in did, "not_called" before
    plot_cmd    \* run_bscan_mute_gpus: optional arguments of the plot request

\* the state only run_bscan_mute_gpus.py touches
mute_vars == <<mute_ns, estimate, plot_cmd>>

vars == <<args, pc, k, chunks, active, snapshot, finished, gpu_ids, ranges,
          procs, rc, workers, observed, emitted, sh_ret, verdict, exit_code,
          mute_ns, estimate, plot_cmd>>

\* ---------------------------------------------------------------- helpers
Min(a, b) == IF a <= b THEN a ELSE b
Max(a, b) == IF a >= b THEN a ELSE b
Abs(a) == IF a >= 0 THEN a ELSE -a

RECURSIVE SumSeq(_)
SumSeq(s) == IF s = <<>> THEN 0 ELSE Head(s) + SumSeq(Tail(s))

\* Sequences over S of length lo..hi.
SeqsOf(S, lo, hi) == UNION {[1..n -> S] : n \in lo..hi}

\* Python's a | b on integers (two's complement, unbounded).
RECURSIVE BitOr(_, _)
BitOr(a, b) ==
    IF a = 0 THEN b
    ELSE IF b = 0 THEN a
    ELSE IF a = -1 \/ b = -1 THEN -1
    ELSE 2 * BitOr(a \div 2, b \div 2) + Max(a % 2, b % 2)

\* sys.exit(n): the status the OS delivers is n modulo 256.
ExitStatus(n) == n % 256

\* Python 3 round(p / q) for q > 0: nearest integer, ties to even.
Round(p, q) ==
    LET fl == p \div q
        r2 == 2 * (p % q)
    IN  IF r2 < q THEN fl
        ELSE IF r2 > q THEN fl + 1
        ELSE IF fl % 2 = 0 THEN fl ELSE fl + 1

\* ---------------------------------------------------------------- make_chunks
RECURSIVE ChunksFrom(_, _, _, _)
ChunksFrom(s, N, chunk_size, acc) ==
    IF s <= N
    THEN LET e == Min(N, s + chunk_size - 1)
         IN  ChunksFrom(e + 1, N, chunk_size, Append(acc, <<s, e>>))
    ELSE acc

\* mutant: the chunk end computed as s + chunk_size, one index too far
make_chunks_LongChunks(N, chunk_size) == ChunksFrom(1, N, chunk_size + 1, <<>>)

make_chunks(N, chunk_size) == ChunksFrom(1, N, chunk_size, <<>>)

\* ---------------------------------------------------------------- split_runs_by_weights
\* sizes after round-to-nearest
RoundedSizes(total_runs, weights) ==
    [i \in 1..Len(weights) |-> Round(total_runs * weights[i], SumSeq(weights))]

\* mutant: the rounding error is left uncorrected
CorrectedSizes_Uncorrected(total_runs, weights) == RoundedSizes(total_runs, weights)

\* sizes after the round-robin +1/-1 correction of the rounding error
CorrectedSizes(total_runs, weights) ==
    LET sizes == RoundedSizes(total_runs, weights)
        diff  == total_runs - SumSeq(sizes)
        n     == Len(sizes)
        hits(idx) == Cardinality({i \in 0..(Abs(diff) - 1) : i % n = idx})
    IN  [j \in 1..n |-> sizes[j] + (IF diff > 0 THEN 1 ELSE -1) * hits(j - 1)]

RECURSIVE RangesFrom(_, _, _, _)
RangesFrom(start, sizes, total_runs, acc) ==
    IF sizes = <<>> THEN acc
    ELSE LET end == Min(total_runs, start + Head(sizes) - 1)
         IN  RangesFrom(end + 1, Tail(sizes), total_runs, Append(acc, <<start, end>>))

split_runs_by_weights(total_runs, weights) ==
    RangesFrom(1, CorrectedSizes(total_runs, weights), total_runs, <<>>)

\* ---------------------------------------------------------------- dict active
HasKey(d, g) == \E j \in 1..Len(d) : d[j].gpu = g

\* d[g] = (proc, rr): an existing key keeps its place, a new key goes last
DictSet(d, g, proc, rr) ==
    LET e == [gpu |-> g, proc |-> proc, rr |-> rr]
    IN  IF HasKey(d, g)
        THEN [j \in 1..Len(d) |-> IF d[j].gpu = g THEN e ELSE d[j]]
        ELSE Append(d, e)

\* del d[g]
DictDel(d, g) == SelectSeq(d, LAMBDA e : e.gpu # g)

\* ---------------------------------------------------------------- processes
\* launch_chunk_worker: the child runs main() with --worker --runs --gpu --range
ChunkWorker(total_runs, r1, r2, gpu_id) ==
    [kind |-> "worker", gpu |-> gpu_id, runs |-> total_runs, r1 |-> r1, r2 |-> r2,
     i |-> r1, calls |-> <<>>, alive |-> TRUE, ret |-> 0]

\* the static launcher's child: the engine itself, with -n <count> and no -task
EngineProc(count, gpu_id) ==
    [kind |-> "engine", gpu |-> gpu_id, runs |-> count, r1 |-> 0, r2 |-> 0,
     i |-> 0, calls |-> <<>>, alive |-> TRUE, ret |-> 0]

\* mutant: the engine's return code is not tested; the loop goes on to r2
TaskStep_KeepGoing(w, r) ==
    LET c == [n |-> w.runs, task |-> w.i, gpu |-> w.gpu, ret |-> r]
    IN  IF w.i + 1 > w.r2
        THEN [w EXCEPT !.calls = Append(@, c), !.i = @ + 1, !.alive = FALSE, !.ret = 0]
        ELSE [w EXCEPT !.calls = Append(@, c), !.i = @ + 1]

\* mutant: an index whose run failed is run a second time before giving up
TaskStep_RetryOnce(w, r) ==
    LET c == [n |-> w.runs, task |-> w.i, gpu |-> w.gpu, ret |-> r]
        retried == w.calls # <<>> /\ w.calls[Len(w.calls)].task = w.i
    IN  IF r # 0 /\ ~retried
        THEN [w EXCEPT !.calls = Append(@, c)]
        ELSE IF r # 0
        THEN [w EXCEPT !.calls = Append(@, c), !.alive = FALSE, !.ret = ExitStatus(r)]
        ELSE IF w.i + 1 > w.r2
        THEN [w EXCEPT !.calls = Append(@, c), !.i = @ + 1, !.alive = FALSE,
                       !.ret = ExitStatus(0)]
        ELSE [w EXCEPT !.calls = Append(@, c), !.i = @ + 1]

\* one iteration of run_tasks_on_gpu's loop in worker w, the engine returning r;
\* the worker's main() then leaves through sys.exit(rc)
TaskStep(w, r) ==
    LET c == [n |-> w.runs, task |-> w.i, gpu |-> w.gpu, ret |-> r]
    IN  IF r # 0
        THEN [w EXCEPT !.calls = Append(@, c), !.alive = FALSE, !.ret = ExitStatus(r)]
        ELSE IF w.i + 1 > w.r2
        THEN [w EXCEPT !.calls = Append(@, c), !.i = @ + 1, !.alive = FALSE,
                       !.ret = ExitStatus(0)]
        ELSE [w EXCEPT !.calls = Append(@, c), !.i = @ + 1]

\* the engine process of the static launcher runs its -n count and exits with r
EngineStep(w, r) ==
    [w EXCEPT !.calls = Append(@, [n |-> w.runs, task |-> 0, gpu |-> w.gpu, ret |-> r]),
              !.alive = FALSE, !.ret = r]

\* proc.poll(): None (modelled as -1) while the child runs, else its status
Poll(pid) == IF workers[pid].alive THEN -1 ELSE workers[pid].ret

\* ---------------------------------------------------------------- shared steps
\* rc |= (ret or 0)
Accumulate(acc, ret) == BitOr(acc, ret)

\* mutant: only status 1 counts as a failure
Failed_OnlyOne(acc) == acc = 1

\* the test "if rc != 0: sys.exit(rc)" guarding the merge/plot handoff
Failed(acc) == acc # 0

\* sys.exit(n) in main()
Exit(n) ==
    /\ pc' = "exited"
    /\ exit_code' = ExitStatus(n)

\* mutant: the collaborator's return code is not looked at
Sh_Unchecked(what, r, next) ==
    /\ emitted' = Append(emitted, what)
    /\ sh_ret' = Append(sh_ret, r)
    /\ pc' = next /\ UNCHANGED exit_code

\* sh(cmd): run the collaborator; a non-zero return code ends main() with it
Sh(what, r, next) ==
    /\ emitted' = Append(emitted, what)
    /\ sh_ret' = Append(sh_ret, r)
    /\ IF r # 0 THEN Exit(r) ELSE pc' = next /\ UNCHANGED exit_code

\* mutant: an empty device list is not noticed
NoDevices_Unnoticed(g) == FALSE

\* "if not gpus:" / "if not gpu_ids:", the launcher has no device to use
NoDevices(g) == g = <<>>

\* subprocess.Popen(cmd): the child gets the next pid
Spawn(w) ==
    /\ workers' = Append(workers, w)
    /\ observed' = Append(observed, 0)

NewPid == Len(workers) + 1

\* ---------------------------------------------------------------- Init
\* --gpus lists of the dynamic scheduler. The scheduler only compares device
\* identifiers for equality, so the lists are taken up to renaming: the first
\* identifier is 0.
GpuLists == {g \in SeqsOf(Devs, 0, MaxGpus) : g # <<>> => g[1] = 0}

\* the command lines: infile_ok tells whether the file named by --infile exists
DynamicArgs ==
    {[mode |-> "dynamic", runs |-> n, chunk_size |-> c, gpus |-> g,
      gpus_blank |-> (g = <<>>), weights |-> <<>>, weights_blank |-> TRUE,
      infile_ok |-> f, mute_ns |-> "None",
      gpu |-> "None", range_given |-> FALSE, range |-> <<0, 0>>] :
        n \in 0..MaxRuns, c \in 0..MaxChunk, g \in GpuLists, f \in BOOLEAN}

StaticArgs ==
    {[mode |-> "static", runs |-> n, chunk_size |-> 0, gpus |-> [j \in 1..m |-> j - 1],
      gpus_blank |-> gb, weights |-> w, weights_blank |-> wb, infile_ok |-> f,
      mute_ns |-> "None", gpu |-> "None", range_given |-> FALSE, range |-> <<0, 0>>] :
        n \in 0..MaxStaticRuns, m \in 0..MaxWeights, w \in SeqsOf(WeightVals, 0, MaxWeights),
        gb \in BOOLEAN, wb \in BOOLEAN, f \in BOOLEAN}

\* run_bscan.py ("single") and run_bscan_mute_gpus.py ("mute"): one device, --runs
\* passed on as it is, --mute_ns given or not
PipelineArgs ==
    {[mode |-> m, runs |-> n, chunk_size |-> 0, gpus |-> <<0>>,
      gpus_blank |-> FALSE, weights |-> <<>>, weights_blank |-> TRUE,
      infile_ok |-> f, mute_ns |-> mu,
      gpu |-> "None", range_given |-> FALSE, range |-> <<0, 0>>] :
        m \in {"single", "mute"}, n \in 0..MaxRuns, f \in BOOLEAN,
        mu \in {"None", "given"}}

\* run_bscan_gpu_cpu.py called with --worker: --gpu absent ("None"), empty or
\* "0"; --range absent or two integers
WorkerArgs ==
    {[mode |-> "worker", runs |-> n, chunk_size |-> 0, gpus |-> <<>>,
      gpus_blank |-> TRUE, weights |-> <<>>, weights_blank |-> TRUE,
      infile_ok |-> f, mute_ns |-> "None",
      gpu |-> g, range_given |-> rg, range |-> <<r1, r2>>] :
        n \in 0..MaxRuns, f \in BOOLEAN, g \in {"None", "", "0"}, rg \in BOOLEAN,
        r1 \in 0..MaxRuns, r2 \in 0..MaxRuns}

Init ==
    /\ args \in DynamicArgs \cup
                {a \in StaticArgs : /\ a.gpus_blank => a.gpus = <<>>
                                    /\ a.weights_blank => a.weights = <<>>} \cup
                {a \in PipelineArgs : a.mode = "single" => a.mute_ns = "None"} \cup
                {a \in WorkerArgs : ~a.range_given => a.range = <<0, 0>>}
    /\ pc = "start"
    /\ k = 0
    /\ chunks = <<>>
    /\ active = <<>>
    /\ snapshot = <<>>
    /\ finished = <<>>
    /\ gpu_ids = <<>>
    /\ ranges = <<>>
    /\ procs = <<>>
    /\ rc = 0
    /\ workers = <<>>
    /\ observed = <<>>
    /\ emitted = <<>>
    /\ sh_ret = <<>>
    /\ verdict = "none"
    /\ exit_code = -1
    /\ mute_ns = "None"
    /\ estimate = "not_called"
    /\ plot_cmd = <<>>

\* ---------------------------------------------------------------- run_bscan_gpu_cpu.py main()
\* lines 63-72: device list, make_chunks, empty active
DynStart ==
    /\ pc = "start" /\ args.mode = "dynamic"
    /\ IF NoDevices(args.gpus)
       THEN Exit(1) /\ UNCHANGED <<k, chunks>>
       ELSE /\ chunks' = make_chunks(args.runs, Max(1, args.chunk_size))
            /\ k' = 1
            /\ pc' = "assign"
            /\ UNCHANGED exit_code
    /\ UNCHANGED <<args, mute_vars, verdict, active, snapshot, finished, gpu_ids, ranges, procs, rc,
                   workers, observed, emitted, sh_ret>>

\* mutant: after a failure the queue is dropped instead of served
Dispatch_StopOnFailure(d, gpu) ==
    IF rc # 0
    THEN /\ chunks' = <<>>
         /\ active' = d
         /\ UNCHANGED <<workers, observed>>
    ELSE /\ chunks' = Tail(chunks)
         /\ Spawn(ChunkWorker(args.runs, Head(chunks)[1], Head(chunks)[2], gpu))
         /\ active' = DictSet(d, gpu, NewPid, Head(chunks))

\* mutant: the chunk is taken from the back of the queue (pop instead of popleft)
Dispatch_Lifo(d, gpu) ==
    /\ chunks' = SubSeq(chunks, 1, Len(chunks) - 1)
    /\ Spawn(ChunkWorker(args.runs, chunks[Len(chunks)][1], chunks[Len(chunks)][2], gpu))
    /\ active' = DictSet(d, gpu, NewPid, chunks[Len(chunks)])

\* mutant: a device freed by a finished worker is only removed from active, the
\* queue is served by the first loop alone
Dispatch_InitOnly(d, gpu) ==
    IF pc = "reassign"
    THEN /\ active' = d
         /\ UNCHANGED <<chunks, workers, observed>>
    ELSE /\ chunks' = Tail(chunks)
         /\ Spawn(ChunkWorker(args.runs, Head(chunks)[1], Head(chunks)[2], gpu))
         /\ active' = DictSet(d, gpu, NewPid, Head(chunks))

\* mutant: every worker is launched on the first device of the list
Dispatch_FirstDevice(d, gpu) ==
    /\ chunks' = Tail(chunks)
    /\ Spawn(ChunkWorker(args.runs, Head(chunks)[1], Head(chunks)[2], args.gpus[1]))
    /\ active' = DictSet(d, gpu, NewPid, Head(chunks))

\* one chunk handed to device gpu: popleft, launch_chunk_worker, active[gpu] = ...
Dispatch(d, gpu) ==
    /\ chunks' = Tail(chunks)
    /\ Spawn(ChunkWorker(args.runs, Head(chunks)[1], Head(chunks)[2], gpu))
    /\ active' = DictSet(d, gpu, NewPid, Head(chunks))

\* lines 75-79: one iteration of the first loop over gpus
DynAssign ==
    /\ pc = "assign"
    /\ IF k > Len(args.gpus) \/ chunks = <<>>
       THEN /\ pc' = "loop"
            /\ UNCHANGED <<k, chunks, active, workers, observed>>
       ELSE /\ Dispatch(active, args.gpus[k])
            /\ k' = k + 1
            /\ UNCHANGED pc
    /\ UNCHANGED <<args, mute_vars, verdict, snapshot, finished, gpu_ids, ranges, procs, rc,
                   emitted, sh_ret, exit_code>>

\* lines 83-85: the while test, and the snapshot the poll pass iterates over
DynLoop ==
    /\ pc = "loop"
    /\ IF active = <<>>
       THEN pc' = "verdict" /\ UNCHANGED <<snapshot, finished, k>>
       ELSE /\ snapshot' = active
            /\ finished' = <<>>
            /\ k' = 1
            /\ pc' = "poll"
    /\ UNCHANGED <<args, mute_vars, verdict, chunks, active, gpu_ids, ranges, procs, rc, workers,
                   observed, emitted, sh_ret, exit_code>>

\* mutant: proc.wait() in place of proc.poll(), the pass waits for the child
DynPoll_Blocking ==
    /\ pc = "poll"
    /\ IF k > Len(snapshot)
       THEN /\ pc' = "reassign"
            /\ k' = 1
            /\ UNCHANGED <<rc, finished, observed>>
       ELSE /\ ~workers[snapshot[k].proc].alive
            /\ rc' = Accumulate(rc, workers[snapshot[k].proc].ret)
            /\ finished' = Append(finished, snapshot[k].gpu)
            /\ observed' = [observed EXCEPT ![snapshot[k].proc] = @ + 1]
            /\ k' = k + 1
            /\ UNCHANGED pc
    /\ UNCHANGED <<args, mute_vars, verdict, chunks, active, snapshot, gpu_ids, ranges, procs,
                   workers, emitted, sh_ret, exit_code>>

\* lines 85-89: one non-blocking poll of the pass
DynPoll ==
    /\ pc = "poll"
    /\ IF k > Len(snapshot)
       THEN /\ pc' = "reassign"
            /\ k' = 1
            /\ UNCHANGED <<rc, finished, observed>>
       ELSE LET ret == Poll(snapshot[k].proc)
            IN  /\ IF ret # -1
                   THEN /\ rc' = Accumulate(rc, ret)
                        /\ finished' = Append(finished, snapshot[k].gpu)
                        /\ observed' = [observed EXCEPT ![snapshot[k].proc] = @ + 1]
                   ELSE UNCHANGED <<rc, finished, observed>>
                /\ k' = k + 1
                /\ UNCHANGED pc
    /\ UNCHANGED <<args, mute_vars, verdict, chunks, active, snapshot, gpu_ids, ranges, procs, workers,
                   emitted, sh_ret, exit_code>>

\* lines 90-96: one iteration of the loop over finished, then the sleep test
DynReassign ==
    /\ pc = "reassign"
    /\ IF k > Len(finished)
       THEN /\ pc' = IF active # <<>> THEN "sleep" ELSE "loop"
            /\ UNCHANGED <<k, chunks, active, workers, observed>>
       ELSE /\ IF chunks # <<>>
               THEN Dispatch(DictDel(active, finished[k]), finished[k])
               ELSE /\ active' = DictDel(active, finished[k])
                    /\ UNCHANGED <<chunks, workers, observed>>
            /\ k' = k + 1
            /\ UNCHANGED pc
    /\ UNCHANGED <<args, mute_vars, verdict, snapshot, finished, gpu_ids, ranges, procs, rc,
                   emitted, sh_ret, exit_code>>

\* line 96: time.sleep(0.2)
DynSleep ==
    /\ pc = "sleep"
    /\ pc' = "loop"
    /\ UNCHANGED <<args, mute_vars, verdict, k, chunks, active, snapshot, finished, gpu_ids, ranges,
                   procs, rc, workers, observed, emitted, sh_ret, exit_code>>

\* lines 98-100
DynVerdict ==
    /\ pc = "verdict"
    /\ verdict' = IF Failed(rc) THEN "failure" ELSE "success"
    /\ IF Failed(rc) THEN Exit(rc) ELSE pc' = "merge" /\ UNCHANGED exit_code
    /\ UNCHANGED <<args, mute_vars, k, chunks, active, snapshot, finished, gpu_ids, ranges,
                   procs, rc, workers, observed, emitted, sh_ret>>

\* line 104
DynMerge ==
    /\ pc = "merge"
    /\ \E r \in CollabRets : Sh("merge", r, "plot")
    /\ UNCHANGED <<args, mute_vars, verdict, k, chunks, active, snapshot, finished,
                   gpu_ids, ranges, procs, rc, workers, observed>>

\* line 107, and the return from main()
DynPlot ==
    /\ pc = "plot"
    /\ \E r \in CollabRets :
          /\ emitted' = Append(emitted, "plot")
          /\ sh_ret' = Append(sh_ret, r)
          /\ Exit(r)
    /\ UNCHANGED <<args, mute_vars, verdict, k, chunks, active, snapshot, finished,
                   gpu_ids, ranges, procs, rc, workers, observed>>

\* ---------------------------------------------------------------- child processes
\* what a run of the engine can return: it cannot succeed on an input file
\* that does not exist
EngineOutcomes == IF args.infile_ok THEN EngineRets ELSE EngineRets \ {0}

\* a step of child pid: a chunk worker runs its next task (lines 55-61, 12-20),
\* an engine child of the static launcher finishes
WorkerStep(pid) ==
    /\ pid \in 1..Len(workers)
    /\ workers[pid].alive
    /\ \E r \in EngineOutcomes :
          workers' = [workers EXCEPT ![pid] =
                         IF @.kind = "engine" THEN EngineStep(@, r) ELSE TaskStep(@, r)]
    /\ UNCHANGED <<args, mute_vars, verdict, pc, k, chunks, active, snapshot, finished, gpu_ids, ranges,
                   procs, rc, observed, emitted, sh_ret, exit_code>>

\* ---------------------------------------------------------------- run_bscan2mpi.py main()
\* what autodetect_gpus() may return: the visible device indices, or []
Detected == {[j \in 1..m |-> j - 1] : m \in 0..MaxGpus}

\* zip(gpu_ids, ranges)
Zipped == Min(Len(gpu_ids), Len(ranges))

\* lines 65-89: the --infile check, device list, weights, split_runs_by_weights
StaticStart ==
    /\ pc = "start" /\ args.mode = "static"
    /\ \E det \in (IF args.gpus_blank THEN Detected ELSE {args.gpus}) :
          LET weights == IF args.weights_blank THEN [j \in 1..Len(det) |-> 1]
                         ELSE args.weights
          IN  IF ~args.infile_ok
              THEN Exit(1) /\ UNCHANGED <<gpu_ids, ranges, k>>
              ELSE IF args.gpus_blank /\ NoDevices(det)
              THEN Exit(1) /\ UNCHANGED <<gpu_ids, ranges, k>>
              ELSE IF ~args.weights_blank /\ Len(weights) # Len(det)
              THEN Exit(1) /\ gpu_ids' = det /\ UNCHANGED <<ranges, k>>
              ELSE IF weights = <<>> /\ args.runs # 0
              THEN \* i % len(sizes) with no sizes: ZeroDivisionError ends main()
                   Exit(1) /\ gpu_ids' = det /\ UNCHANGED <<ranges, k>>
              ELSE /\ gpu_ids' = det
                   /\ ranges' = split_runs_by_weights(args.runs, weights)
                   /\ k' = 1
                   /\ pc' = "spawn"
                   /\ UNCHANGED exit_code
    /\ UNCHANGED <<args, mute_vars, verdict, chunks, active, snapshot, finished, procs, rc, workers,
                   observed, emitted, sh_ret>>

\* mutant: no range is taken for empty
EmptyRange_Never(rr) == FALSE

\* line 101, "if r1 > r2: continue"
EmptyRange(rr) == rr[1] > rr[2]

\* lines 100-111: one iteration of the launch loop; an empty range is skipped
StaticSpawn ==
    /\ pc = "spawn"
    /\ IF k > Zipped
       THEN /\ pc' = "wait"
            /\ k' = 1
            /\ UNCHANGED <<procs, workers, observed>>
       ELSE /\ IF EmptyRange(ranges[k])
               THEN UNCHANGED <<procs, workers, observed>>
               ELSE /\ Spawn(EngineProc(ranges[k][2] - ranges[k][1] + 1, gpu_ids[k]))
                    /\ procs' = Append(procs, NewPid)
            /\ k' = k + 1
            /\ UNCHANGED pc
    /\ UNCHANGED <<args, mute_vars, verdict, chunks, active, snapshot, finished, gpu_ids, ranges, rc,
                   emitted, sh_ret, exit_code>>

\* lines 115-119: p.wait() returns once the child has exited
StaticWait ==
    /\ pc = "wait"
    /\ IF k > Len(procs)
       THEN /\ pc' = "s_verdict"
            /\ UNCHANGED <<k, rc, observed>>
       ELSE /\ ~workers[procs[k]].alive
            /\ rc' = Accumulate(rc, workers[procs[k]].ret)
            /\ observed' = [observed EXCEPT ![procs[k]] = @ + 1]
            /\ k' = k + 1
            /\ UNCHANGED pc
    /\ UNCHANGED <<args, mute_vars, verdict, chunks, active, snapshot, finished, gpu_ids, ranges, procs,
                   workers, emitted, sh_ret, exit_code>>

\* lines 120-137: the verdict; the timing report and the renaming of the
\* per-device output files touch nothing modelled here
StaticVerdict ==
    /\ pc = "s_verdict"
    /\ verdict' = IF Failed(rc) THEN "failure" ELSE "success"
    /\ IF Failed(rc) THEN Exit(rc) ELSE pc' = "s_merge" /\ UNCHANGED exit_code
    /\ UNCHANGED <<args, mute_vars, k, chunks, active, snapshot, finished, gpu_ids, ranges,
                   procs, rc, workers, observed, emitted, sh_ret>>

\* line 140
StaticMerge ==
    /\ pc = "s_merge"
    /\ \E r \in CollabRets : Sh("merge", r, "s_plot")
    /\ UNCHANGED <<args, mute_vars, verdict, k, chunks, active, snapshot, finished,
                   gpu_ids, ranges, procs, rc, workers, observed>>

\* line 143, and the return from main()
StaticPlot ==
    /\ pc = "s_plot"
    /\ \E r \in CollabRets :
          /\ emitted' = Append(emitted, "plot")
          /\ sh_ret' = Append(sh_ret, r)
          /\ Exit(r)
    /\ UNCHANGED <<args, mute_vars, verdict, k, chunks, active, snapshot, finished,
                   gpu_ids, ranges, procs, rc, workers, observed>>

\* ---------------------------------------------------------------- run_bscan.py main()
\* lines 20-24: the whole sweep is one engine run requested through sh()
BscanSimulate ==
    /\ pc = "start" /\ args.mode = "single"
    /\ \E r \in EngineOutcomes : Sh("simulate", r, "b_merge")
    /\ UNCHANGED <<args, mute_vars, verdict, k, chunks, active, snapshot, finished, gpu_ids,
                   ranges, procs, rc, workers, observed>>

\* line 28
BscanMerge ==
    /\ pc = "b_merge"
    /\ \E r \in CollabRets : Sh("merge", r, "b_plot")
    /\ UNCHANGED <<args, mute_vars, verdict, k, chunks, active, snapshot, finished, gpu_ids,
                   ranges, procs, rc, workers, observed>>

\* line 33, and the return from main()
BscanPlot ==
    /\ pc = "b_plot"
    /\ \E r \in CollabRets :
          /\ emitted' = Append(emitted, "plot")
          /\ sh_ret' = Append(sh_ret, r)
          /\ Exit(r)
    /\ UNCHANGED <<args, mute_vars, verdict, k, chunks, active, snapshot, finished, gpu_ids,
                   ranges, procs, rc, workers, observed>>

\* ---------------------------------------------------------------- run_bscan_mute_gpus.py main()
\* lines 38-42
MuteSimulate ==
    /\ pc = "start" /\ args.mode = "mute"
    /\ \E r \in EngineOutcomes : Sh("simulate", r, "m_merge")
    /\ UNCHANGED <<args, mute_vars, verdict, k, chunks, active, snapshot, finished, gpu_ids,
                   ranges, procs, rc, workers, observed>>

\* line 46
MuteMerge ==
    /\ pc = "m_merge"
    /\ \E r \in CollabRets : Sh("merge", r, "m_mute")
    /\ UNCHANGED <<args, mute_vars, verdict, k, chunks, active, snapshot, finished, gpu_ids,
                   ranges, procs, rc, workers, observed>>

\* what a call of get_mute_ns_from_in can meet (lines 13-27): the estimator
\* exits non-zero; its output matches neither pattern; a pattern matches a
\* number; a pattern matches digits and dots float() rejects (ValueError)
EstimatorOutcomes == {"failed", "no_match", "value", "bad_number"}

\* mutant: without an estimate main() gives up
MuteEstimate_Fatal ==
    /\ pc = "m_mute"
    /\ IF args.mute_ns # "None"
       THEN /\ mute_ns' = "given"
            /\ pc' = "m_plot"
            /\ UNCHANGED <<estimate, exit_code>>
       ELSE \E o \in EstimatorOutcomes :
              /\ estimate' = o
              /\ IF o # "value"
                 THEN Exit(1) /\ UNCHANGED mute_ns
                 ELSE /\ mute_ns' = "estimated"
                      /\ pc' = "m_plot"
                      /\ UNCHANGED exit_code
    /\ UNCHANGED <<args, verdict, k, chunks, active, snapshot, finished, gpu_ids, ranges,
                   procs, rc, workers, observed, emitted, sh_ret, plot_cmd>>

\* lines 50-56: the override, or the estimate; a failed estimate is only a warning
MuteEstimate ==
    /\ pc = "m_mute"
    /\ IF args.mute_ns # "None"
       THEN /\ mute_ns' = "given"
            /\ pc' = "m_plot"
            /\ UNCHANGED <<estimate, exit_code>>
       ELSE \E o \in EstimatorOutcomes :
              /\ estimate' = o
              /\ IF o = "bad_number"
                 THEN Exit(1) /\ UNCHANGED mute_ns
                 ELSE /\ mute_ns' = IF o = "value" THEN "estimated" ELSE "None"
                      /\ pc' = "m_plot"
                      /\ UNCHANGED exit_code
    /\ UNCHANGED <<args, verdict, k, chunks, active, snapshot, finished, gpu_ids, ranges,
                   procs, rc, workers, observed, emitted, sh_ret, plot_cmd>>

\* lines 59-63, and the return from main()
MutePlot ==
    /\ pc = "m_plot"
    /\ plot_cmd' = IF mute_ns # "None" THEN <<"--mute_ns", mute_ns>> ELSE <<>>
    /\ \E r \in CollabRets :
          /\ emitted' = Append(emitted, "plot")
          /\ sh_ret' = Append(sh_ret, r)
          /\ Exit(r)
    /\ UNCHANGED <<args, verdict, k, chunks, active, snapshot, finished, gpu_ids, ranges,
                   procs, rc, workers, observed, mute_ns, estimate>>

\* ---------------------------------------------------------------- run_bscan_gpu_cpu.py --worker
\* mutant: "or" in place of "and" in the test of the worker's arguments
WorkerArgsOk_Either == args.gpu \notin {"None", ""} \/ args.range_given

\* line 56, "args.gpu and args.range": --gpu is a non-empty string and --range
\* was given
WorkerArgsOk == args.gpu \notin {"None", ""} /\ args.range_given

\* lines 55-60: the argument check, then run_tasks_on_gpu begins; main() in
\* worker mode is itself the chunk worker, its loop is kept as workers[1] and
\* advances by WorkerStep(1)
WorkerMain ==
    /\ pc = "start" /\ args.mode = "worker"
    /\ IF ~WorkerArgsOk
       THEN Exit(2) /\ UNCHANGED <<workers, observed>>
       ELSE IF args.range[1] > args.range[2]
       THEN Exit(0) /\ UNCHANGED <<workers, observed>>
       ELSE /\ Spawn(ChunkWorker(args.runs, args.range[1], args.range[2], 0))
            /\ pc' = "w_run"
            /\ UNCHANGED exit_code
    /\ UNCHANGED <<args, mute_vars, verdict, k, chunks, active, snapshot, finished,
                   gpu_ids, ranges, procs, rc, emitted, sh_ret>>

\* lines 60-61: run_tasks_on_gpu has returned, sys.exit(rc)
WorkerReturn ==
    /\ pc = "w_run"
    /\ ~workers[1].alive
    /\ Exit(workers[1].ret)
    /\ UNCHANGED <<args, mute_vars, verdict, k, chunks, active, snapshot, finished,
                   gpu_ids, ranges, procs, rc, workers, observed, emitted, sh_ret>>

\* ---------------------------------------------------------------- specification
\* the launcher's own steps
Main ==
    \/ DynStart
    \/ DynAssign
    \/ DynLoop
    \/ DynPoll
    \/ DynReassign
    \/ DynSleep
    \/ DynVerdict
    \/ DynMerge
    \/ DynPlot
    \/ StaticStart
    \/ StaticSpawn
    \/ StaticWait
    \/ StaticVerdict
    \/ StaticMerge
    \/ StaticPlot
    \/ BscanSimulate
    \/ BscanMerge
    \/ BscanPlot
    \/ MuteSimulate
    \/ MuteMerge
    \/ MuteEstimate
    \/ MutePlot
    \/ WorkerMain
    \/ WorkerReturn

\* pids a sweep can reach
Pids == 1..(MaxRuns + MaxWeights)

Children == \E pid \in Pids : WorkerStep(pid)

Next == Main \/ Children

Spec == Init /\ [][Next]_vars

\* the dynamic scheduler alone
InitDyn == Init /\ args.mode = "dynamic"

DynMain ==
    \/ DynStart
    \/ DynAssign
    \/ DynLoop
    \/ DynPoll
    \/ DynReassign
    \/ DynSleep
    \/ DynVerdict
    \/ DynMerge
    \/ DynPlot

DynNext == DynMain \/ \E pid \in 1..MaxRuns : WorkerStep(pid)

DynSpec == InitDyn /\ [][DynNext]_vars

\* every child that can step eventually does (each engine run ends), and the
\* scheduler's single control thread keeps running
DynFairSpec ==
    /\ DynSpec
    /\ WF_vars(DynMain)
    /\ \A pid \in 1..MaxRuns : WF_vars(WorkerStep(pid))

\* one child, h, may never step again (an engine run that hangs); every other
\* child that can step eventually does, and the control thread keeps running
DynHungSpec ==
    /\ DynSpec
    /\ WF_vars(DynMain)
    /\ \E h \in 1..MaxRuns : \A pid \in (1..MaxRuns) \ {h} : WF_vars(WorkerStep(pid))

\* ================================================================ claims
Dynamic == args.mode = "dynamic"
Static == args.mode = "static"

Range(f) == {f[j] : j \in DOMAIN f}

\* children still running
Running == {p \in 1..Len(workers) : workers[p].alive}

\* the chunk or range child p was launched for
ChunkOf(p) == <<workers[p].r1, workers[p].r2>>

\* children launched for chunk c
WorkersOf(c) == {p \in 1..Len(workers) : ChunkOf(p) = c}

\* the partitioner's output for this sweep (dynamic)
AllChunks == make_chunks(args.runs, Max(1, args.chunk_size))

\* the dynamic scheduler has left its poll loop
LoopEnded == Dynamic /\ (pc \in {"verdict", "merge", "plot"} \/ verdict # "none")

\* C1 (as claimed): in the dynamic scheduler no two children that have not yet
\* exited are bound to the same device, and a child is launched on a device only
\* after the exit of the previous child launched on it has been observed.
C1_OnePerDevice ==
    Dynamic =>
        /\ \A p, q \in Running : p # q => workers[p].gpu # workers[q].gpu
        /\ \A p, q \in 1..Len(workers) :
              (p < q /\ workers[p].gpu = workers[q].gpu) => observed[p] >= 1

\* C2 (as claimed): work conservation. No chunk ever has two children; once the
\* poll loop has ended every chunk of the partition has been popped, has exactly
\* one child, and that child's exit status has been observed exactly once; the
\* number of children equals the number of chunks.
C2_WorkConservation ==
    Dynamic =>
        /\ \A c \in Range(AllChunks) : Cardinality(WorkersOf(c)) <= 1
        /\ \A p \in 1..Len(workers) : observed[p] <= 1
        /\ LoopEnded =>
              /\ chunks = <<>>
              /\ Len(workers) = Len(AllChunks)
              /\ \A c \in Range(AllChunks) :
                    /\ Cardinality(WorkersOf(c)) = 1
                    /\ \A p \in WorkersOf(c) : observed[p] = 1

MergeEmitted == "merge" \in Range(emitted)
PlotEmitted == "plot" \in Range(emitted)
MergeSucceeded == \E j \in 1..Len(emitted) : emitted[j] = "merge" /\ sh_ret[j] = 0

ExitObserved(c) == \E p \in WorkersOf(c) : ~workers[p].alive /\ observed[p] >= 1

\* chunks handed out by the first loop over gpus; the rest wait in the queue
InitSpawned == Min(Len(args.gpus), Len(AllChunks))

\* C4: failure isolation. In the dynamic scheduler, once a non-zero status has
\* been accumulated while chunks are still pending, the queue is still drained:
\* eventually it is empty and every chunk that waited in it has been launched
\* and its child's exit observed (every child eventually exits).
C4_FailureIsolation ==
    (Dynamic /\ rc # 0 /\ chunks # <<>>)
        ~> (/\ chunks = <<>>
            /\ \A j \in (InitSpawned + 1)..Len(AllChunks) : ExitObserved(AllChunks[j]))

\* reached: on a single device the first child failed and the exit of a later
\* child, whose chunk was pending when that failure was observed, was observed
C4_Witness ==
    /\ Dynamic /\ args.gpus = <<0>>
    /\ Len(workers) >= 2
    /\ ~workers[1].alive /\ workers[1].ret # 0
    /\ observed[2] = 1

\* C5 (as claimed): when the poll loop has ended, rc = 0 iff every chunk of the
\* partition had a child that exited with status 0.
C5_AggregateVerdict ==
    LoopEnded =>
        ((rc = 0) <=>
            \A c \in Range(AllChunks) :
                \E p \in WorkersOf(c) : ~workers[p].alive /\ workers[p].ret = 0)

\* ceil(a / b) for b > 0
CeilDiv(a, b) == (a + b - 1) \div b

\* the partition properties of C6 for the result q of make_chunks(N, cs)
IsFixedPartition(q, N, cs) ==
    /\ Len(q) = CeilDiv(N, cs)
    /\ q[1][1] = 1
    /\ q[Len(q)][2] = N
    /\ \A j \in 1..Len(q) : q[j][1] <= q[j][2]
    /\ \A j \in 1..(Len(q) - 1) :
          /\ q[j + 1][1] = q[j][2] + 1
          /\ q[j][2] - q[j][1] + 1 = cs
    /\ \A i \in 1..N : Cardinality({j \in 1..Len(q) : q[j][1] <= i /\ i <= q[j][2]}) = 1

\* main() has just built the pending queue
JustChunked == Dynamic /\ pc = "assign" /\ k = 1

\* C6: for N >= 1 and chunk size >= 1 the queue make_chunks builds is a
\* partition of [1,N] into ceil(N/chunk size) ordered, contiguous chunks, all
\* but the last of exactly chunk size indices.
C6_FixedPartition ==
    (JustChunked /\ args.runs >= 1) =>
        IsFixedPartition(chunks, args.runs, Max(1, args.chunk_size))

\* reached: a queue of several chunks whose last chunk is shorter
C6_Witness ==
    /\ JustChunked
    /\ Len(chunks) >= 2
    /\ chunks[Len(chunks)][2] - chunks[Len(chunks)][1] + 1 < args.chunk_size

\* the weights main() passes to split_runs_by_weights
UsedWeights ==
    IF args.weights_blank THEN [j \in 1..Len(gpu_ids) |-> 1] ELSE args.weights

\* main() has just computed the ranges
JustSplit == Static /\ pc = "spawn" /\ k = 1

\* C7 (as claimed): for N >= 1 and positive weights every corrected share is
\* >= 0, every range has start >= 1 and end <= N, and the non-empty ranges
\* cover each index of [1,N] exactly once.
C7_NonNegativeShares ==
    (JustSplit /\ args.runs >= 1) =>
        /\ \A j \in 1..Len(ranges) :
              /\ CorrectedSizes(args.runs, UsedWeights)[j] >= 0
              /\ ranges[j][1] >= 1
              /\ ranges[j][2] <= args.runs
        /\ \A i \in 1..args.runs :
              Cardinality({j \in 1..Len(ranges) :
                              ranges[j][1] <= i /\ i <= ranges[j][2]}) = 1

\* C8: for N >= 1 and a non-empty list of positive weights the sizes
\* end - start + 1 of the returned ranges sum to N, the first range starts at 1
\* and each later one at the previous end + 1; N = 7, weights [1,2] gives
\* (1,2), (3,7).
C8_WeightedExactness ==
    (JustSplit /\ args.runs >= 1) =>
        /\ Len(ranges) = Len(UsedWeights)
        /\ SumSeq([j \in 1..Len(ranges) |-> ranges[j][2] - ranges[j][1] + 1]) = args.runs
        /\ ranges[1][1] = 1
        /\ \A j \in 1..(Len(ranges) - 1) : ranges[j + 1][1] = ranges[j][2] + 1
        /\ (args.runs = 7 /\ UsedWeights = <<1, 2>>) => ranges = << <<1, 2>>, <<3, 7>> >>

\* reached: the example of the claim
C8_Witness ==
    /\ JustSplit
    /\ args.runs = 7 /\ UsedWeights = <<1, 2>>
    /\ ranges = << <<1, 2>>, <<3, 7>> >>

\* every engine invocation of the sweep: <<pid, position in the child's calls>>
Calls == UNION {{<<p, j>> : j \in 1..Len(workers[p].calls)} : p \in 1..Len(workers)}

CallAt(pj) == workers[pj[1]].calls[pj[2]]

\* an invocation simulates index i of a sweep of N: it was given -n N and
\* either -task i or no -task at all (the engine then runs 1..N itself)
Simulates(c, N, i) == c.n = N /\ (c.task = i \/ c.task = 0)

\* the launcher has ended, every child has exited, every invocation returned 0
SweepSucceeded ==
    /\ pc = "exited" /\ verdict = "success"
    /\ Running = {}
    /\ \A pj \in Calls : CallAt(pj).ret = 0

\* C9 (as claimed): in a sweep where every invocation succeeds, each index of
\* [1,N] is simulated by exactly one invocation, every invocation is given the
\* total N, and none is for an index outside [1,N].  Both launchers.
C9_EachIndexOnce ==
    SweepSucceeded =>
        /\ \A i \in 1..args.runs :
              Cardinality({pj \in Calls : Simulates(CallAt(pj), args.runs, i)}) = 1
        /\ \A pj \in Calls : CallAt(pj).n = args.runs /\ CallAt(pj).task \in 0..args.runs

\* C10: a chunk worker invokes the engine for r1, r1+1, ... in order with the
\* sweep's N and its device; no invocation follows one that returned non-zero,
\* and the worker then exits with that status; it exits 0 iff every index of
\* r1..r2 was invoked and returned 0.
C10_AbortOnFirstFailure ==
    \A p \in 1..Len(workers) :
        LET w == workers[p]
            n == Len(w.calls)
        IN  w.kind = "worker" =>
              /\ n <= w.r2 - w.r1 + 1
              /\ \A j \in 1..n :
                    /\ w.calls[j].task = w.r1 + j - 1
                    /\ w.calls[j].n = args.runs
                    /\ w.calls[j].gpu = w.gpu
              /\ \A j \in 1..(n - 1) : w.calls[j].ret = 0
              /\ w.alive => \A j \in 1..n : w.calls[j].ret = 0
              /\ (~w.alive /\ n > 0 /\ w.calls[n].ret # 0) => w.ret = w.calls[n].ret
              /\ ~w.alive =>
                    ((w.ret = 0) <=>
                        (n = w.r2 - w.r1 + 1 /\ \A j \in 1..n : w.calls[j].ret = 0))

\* reached: a worker of a chunk of several indices exited non-zero after its
\* first invocation failed, the rest of the chunk never attempted
C10_Witness ==
    \E p \in 1..Len(workers) :
        /\ workers[p].kind = "worker"
        /\ ~workers[p].alive /\ workers[p].ret # 0
        /\ Len(workers[p].calls) = 1
        /\ workers[p].r2 > workers[p].r1

\* C11: strict FIFO assignment. In the dynamic scheduler the p-th child ever
\* launched carries the p-th chunk of the partitioner's output, and the queue
\* still pending is exactly the rest of that output, whatever the device list
\* and whatever the order in which the children finish: the chunks of the
\* children in launch order, followed by the queue, are the partitioner's output.
C11_StrictFifo ==
    (Dynamic /\ pc # "start" /\ args.gpus # <<>>) =>
        [p \in 1..Len(workers) |-> ChunkOf(p)] \o chunks = AllChunks

\* reached: one poll pass found two children finished and both freed devices
\* were handed the next two chunks
C11_Witness ==
    /\ Dynamic /\ pc = "reassign"
    /\ Len(finished) = 2 /\ k = 3
    /\ Len(workers) = 4
    /\ \A g \in Range(finished) : HasKey(active, g)

\* C12 (as claimed): invalid partition arguments are rejected. When the dynamic
\* scheduler is given N < 1 or a chunk size < 1 it ends at once with a non-zero
\* exit code: no chunk is produced, no child is launched and no merge or plot
\* request is emitted.
C12_InvalidPartitionRejected ==
    (Dynamic /\ (args.runs < 1 \/ args.chunk_size < 1)) =>
        /\ chunks = <<>>
        /\ workers = <<>>
        /\ emitted = <<>>
        /\ pc = "exited" => exit_code # 0

\* C13 (as claimed): a missing input is fatal before scheduling. In the dynamic
\* scheduler and in the static launcher alike, when the file named by --infile
\* does not exist the launcher ends with a non-zero exit code as its first step:
\* no chunk is queued and no child is ever launched.
C13_MissingInputFatal ==
    ((Dynamic \/ Static) /\ ~args.infile_ok) =>
        /\ workers = <<>>
        /\ chunks = <<>>
        /\ emitted = <<>>
        /\ pc = "exited" => exit_code # 0

\* C14 (as claimed): handoff ordering. In both launchers the merge request is
\* emitted only after every child launched in the sweep has exited, all of them
\* with status 0; the plot request is emitted only after the merge collaborator
\* has returned; so no collaborator is requested or running while a child of
\* the sweep is still running.
C14_HandoffOrdering ==
    (Dynamic \/ Static) =>
        /\ (pc \in {"merge", "plot", "s_merge", "s_plot"} \/ emitted # <<>>) =>
              \A p \in 1..Len(workers) : ~workers[p].alive /\ workers[p].ret = 0
        /\ PlotEmitted =>
              /\ emitted = <<"merge", "plot">>
              /\ sh_ret[1] = 0

\* C15: a collaborator failure is fatal and propagated, in all four scripts
\* (run_bscan, run_bscan_gpu_cpu, run_bscan2mpi, run_bscan_mute_gpus). When the
\* merge request returned a non-zero status s, it is the last request ever made
\* (plot is never requested) and main() has exited with status s; when merge
\* returned 0 and the plot request returned a non-zero status s, main() has
\* exited with status s.
C15_CollaboratorFailureFatal ==
    \A j \in 1..Len(emitted) :
        (emitted[j] \in {"merge", "plot"} /\ sh_ret[j] # 0) =>
            /\ j = Len(emitted)
            /\ pc = "exited"
            /\ exit_code = sh_ret[j]
            /\ emitted[j] = "plot" => MergeSucceeded

\* reached: after a dynamic sweep of several chunks that all succeeded, merge
\* returned 0 and plot returned 3, and the scheduler exited with 3
C15_Witness ==
    /\ Dynamic /\ Len(workers) >= 2
    /\ emitted = <<"merge", "plot">>
    /\ sh_ret = <<0, 3>>
    /\ exit_code = 3

\* bitwise OR of the exit statuses main() has observed among children 1..n
RECURSIVE ObservedOr(_)
ObservedOr(n) ==
    IF n = 0 THEN 0
    ELSE BitOr(ObservedOr(n - 1), IF observed[n] >= 1 THEN workers[n].ret ELSE 0)

\* every unit of work of the sweep has a child that exited 0
EveryChunkReturnedZero ==
    /\ \A p \in 1..Len(workers) : ~workers[p].alive /\ workers[p].ret = 0
    /\ Dynamic => \A j \in 1..Len(AllChunks) : WorkersOf(AllChunks[j]) # {}

\* C16 (as claimed): exit-code propagation. Once a launcher has ended after its
\* verdict, its exit code is 0 exactly when every chunk, the merge request and
\* the plot request returned 0; and when some chunk's child exited non-zero the
\* exit code is the bitwise OR of the statuses observed, taken modulo 256, and
\* it is not 0.
C16_ExitCodePropagation ==
    ((Dynamic \/ Static) /\ pc = "exited" /\ verdict # "none") =>
        /\ (exit_code = 0) <=>
              /\ EveryChunkReturnedZero
              /\ emitted = <<"merge", "plot">>
              /\ sh_ret = <<0, 0>>
        /\ (\E p \in 1..Len(workers) : ~workers[p].alive /\ workers[p].ret # 0) =>
              /\ exit_code = ExitStatus(ObservedOr(Len(workers)))
              /\ exit_code # 0

\* the device list the static launcher works with: --gpus, or what was detected
ResolvedGpus == IF args.gpus_blank THEN gpu_ids ELSE args.gpus

\* the configuration errors: no weight per device (static), --gpus blank and
\* no device detected (static), --gpus without any identifier (dynamic)
ConfigError ==
    \/ Static /\ ~args.weights_blank /\ Len(args.weights) # Len(ResolvedGpus)
    \/ Static /\ args.gpus_blank /\ gpu_ids = <<>>
    \/ Dynamic /\ args.gpus = <<>>

\* C17: configuration errors are fatal before any work. When the number of
\* weights given differs from the number of devices (static launcher), when
\* --gpus is blank and no device is auto-detected (static launcher), or when
\* --gpus names no device (dynamic scheduler), the first step of main() ends it
\* with a non-zero exit code: no child is ever launched and neither merge nor
\* plot is requested.
C17_ConfigErrorsFatal ==
    (pc # "start" /\ ConfigError) =>
        /\ pc = "exited"
        /\ exit_code # 0
        /\ workers = <<>>
        /\ emitted = <<>>

\* reached: the static launcher, its input file present, was given three
\* devices, two weights and a sweep to run, and exited at once
C17_Witness ==
    /\ Static /\ args.infile_ok /\ args.runs >= 1
    /\ Len(args.gpus) = 3 /\ Len(args.weights) = 2 /\ ~args.weights_blank
    /\ pc = "exited" /\ exit_code = 1
    /\ workers = <<>>

\* C18: no retries. In a sweep of the dynamic scheduler no two engine
\* invocations, of the same child or of different children, carry the same run
\* index, whatever they returned (there are as many indices as invocations);
\* and a chunk that has been handed to a child
\* is never in the pending queue again nor handed to a second child, whether
\* its child exited 0, exited non-zero or is still running.
C18_NoRetries ==
    Dynamic =>
        /\ Cardinality({CallAt(a).task : a \in Calls}) = Cardinality(Calls)
        /\ \A p \in 1..Len(workers) :
              /\ \A j \in 1..Len(chunks) : chunks[j] # ChunkOf(p)
              /\ WorkersOf(ChunkOf(p)) = {p}

\* reached: on a single device the first chunk's worker exited non-zero after
\* one invocation, and the sweep went on to the end with the other chunks
C18_Witness ==
    /\ Dynamic /\ args.gpus = <<0>> /\ pc = "exited"
    /\ Len(workers) >= 2
    /\ ~workers[1].alive /\ workers[1].ret # 0
    /\ \A p \in 1..Len(workers) : observed[p] = 1

\* slots of the static launcher the launch loop has dealt with so far
SlotsDone == IF pc = "spawn" THEN k - 1 ELSE Len(ranges)

\* how many of the slots 1..j have a range with start <= end
NonEmptyUpTo(j) == Cardinality({i \in 1..j : ranges[i][1] <= ranges[i][2]})

\* the static launcher has waited on every process it launched
AllWaited == Static /\ (pc \in {"s_verdict", "s_merge", "s_plot"} \/ verdict # "none")

\* C19: an empty static share is skipped. In the static launcher a slot whose
\* range has start > end gets no process, and a slot whose range has
\* start <= end gets exactly one, the engine on the slot's device with the
\* range's length as -n; once the wait loop is over every process launched has
\* been waited on exactly once and rc is the OR of their statuses alone.
C19_EmptyShareSkipped ==
    Static =>
        /\ Len(gpu_ids) >= Len(ranges)
        /\ Len(workers) = NonEmptyUpTo(SlotsDone)
        /\ procs = [j \in 1..Len(workers) |-> j]
        /\ \A j \in 1..SlotsDone :
              LET ws == {p \in 1..Len(workers) : workers[p].gpu = gpu_ids[j]}
              IN  IF ranges[j][1] > ranges[j][2]
                  THEN ws = {}
                  ELSE /\ ws = {NonEmptyUpTo(j)}
                       /\ \A p \in ws : /\ workers[p].kind = "engine"
                                        /\ workers[p].runs = ranges[j][2] - ranges[j][1] + 1
        /\ AllWaited =>
              /\ \A p \in 1..Len(workers) : ~workers[p].alive /\ observed[p] = 1
              /\ rc = ObservedOr(Len(workers))

\* reached: of three slots only two had a run to make, and both processes
\* have been waited on
C19_Witness ==
    /\ Static /\ pc = "s_verdict"
    /\ Len(ranges) = 3
    /\ \E j \in 1..3 : ranges[j][1] > ranges[j][2]
    /\ Len(procs) = 2

\* the --gpus list names every device once
DistinctGpus == \A i, j \in 1..Len(args.gpus) : i # j => args.gpus[i] # args.gpus[j]

\* C20: saturation under greedy reassignment. In the dynamic scheduler with
\* distinct device identifiers, a device whose worker was found finished is
\* handed the chunk at the head of the queue in the same pass of the loop: once
\* the reassignment has gone past it, either it has a worker again or the queue
\* is empty. Hence whenever the loop sleeps with chunks still pending, every
\* device of the list has a worker.
C20_Saturation ==
    (Dynamic /\ DistinctGpus) =>
        /\ pc = "reassign" =>
              \A j \in 1..(k - 1) : chunks # <<>> => HasKey(active, finished[j])
        /\ (pc = "sleep" /\ chunks # <<>>) =>
              \A g \in Range(args.gpus) : HasKey(active, g)

\* reached: the loop sleeps with two devices busy and a chunk still pending,
\* after a device freed by a finished worker was given a new chunk
C20_Witness ==
    /\ Dynamic /\ DistinctGpus /\ Len(args.gpus) = 2
    /\ pc = "sleep" /\ chunks # <<>>
    /\ Len(workers) = 3
    /\ Len(active) = 2

\* the first loop over the devices has just ended, no poll pass has begun
JustAssigned == Dynamic /\ pc = "loop" /\ snapshot = <<>>

\* C21: init assignment. In the dynamic scheduler with distinct device
\* identifiers, when the first loop ends exactly min(devices, chunks) workers
\* have been launched and are held in active, the i-th of them on the i-th
\* device of the list with the i-th chunk, the rest of the chunks waiting in
\* the queue; and at no later time does a worker run on a device the first
\* loop left without a chunk.
C21_InitAssignment ==
    (Dynamic /\ DistinctGpus /\ args.gpus # <<>>) =>
        /\ pc = "assign" => Len(workers) = k - 1
        /\ JustAssigned =>
              /\ Len(workers) = InitSpawned
              /\ active = [i \in 1..InitSpawned |->
                             [gpu |-> args.gpus[i], proc |-> i, rr |-> AllChunks[i]]]
              /\ \A i \in 1..InitSpawned :
                    workers[i].gpu = args.gpus[i] /\ ChunkOf(i) = AllChunks[i]
              /\ chunks = SubSeq(AllChunks, InitSpawned + 1, Len(AllChunks))
        /\ LET served == {args.gpus[i] : i \in 1..InitSpawned}
           IN  \A p \in 1..Len(workers) : workers[p].gpu \in served

\* reached: two devices, a single chunk; the sweep has ended and the second
\* device never had a worker
C21_Witness ==
    /\ Dynamic /\ args.gpus = <<0, 1>> /\ args.runs >= 2
    /\ Len(AllChunks) = 1
    /\ pc = "exited" /\ verdict # "none"
    /\ Len(workers) = 1 /\ workers[1].gpu = 0

\* the dynamic scheduler's poll loop has stopped, or main() ended before it
Stopped == LoopEnded \/ pc = "exited"

\* C22 (as claimed): termination of the scheduler. If every launched worker
\* eventually exits, the poll loop of the dynamic scheduler eventually stops;
\* when it has stopped the queue is empty and no worker the scheduler launched
\* is still running; and it does not stop while the queue is non-empty.
C22_Termination ==
    /\ <>Stopped
    /\ [](LoopEnded => (chunks = <<>> /\ Running = {}))

\* children whose exit status the scheduler has not recorded
Unobserved == {p \in 1..Len(workers) : observed[p] = 0}

\* the queue has been drained and at most one child's status is still missing
DrainedButOne == pc # "start" /\ chunks = <<>> /\ Cardinality(Unobserved) <= 1

\* C23: a hung worker does not block the other slots. In the dynamic scheduler
\* with at least two distinct devices, if at most one worker never exits while
\* every other one eventually does, the queue is eventually drained and the
\* exit status of every other worker is eventually recorded; and a poll step
\* is never held up by the worker it polls: whenever the scheduler is in its
\* poll pass it can take the next step.
C23_HungWorkerDoesNotBlock ==
    /\ (DistinctGpus /\ Len(args.gpus) >= 2) => <>DrainedButOne
    /\ [](pc = "poll" => ENABLED DynPoll)

\* reached: the first worker has not made a single engine run, the queue is
\* empty, the other device has served every other chunk and their statuses
\* are recorded, and the loop sleeps
C23_Witness ==
    /\ Dynamic /\ args.gpus = <<0, 1>> /\ pc = "sleep"
    /\ Len(workers) >= 3 /\ chunks = <<>>
    /\ workers[1].alive /\ workers[1].calls = <<>>
    /\ Unobserved = {1}

\* C24 (as claimed): no timeout or cancellation. In the dynamic scheduler, as
\* long as a launched worker has not exited the poll loop has not stopped, no
\* merge or plot request has been made and main() has not ended; no later
\* worker has been launched on that worker's device; and its chunk is neither
\* back in the queue nor given to another worker.  (A worker that never exits
\* therefore keeps the scheduler polling for ever.)
C24_NoTimeoutNoCancel ==
    Dynamic =>
        \A p \in Running :
            /\ ~LoopEnded
            /\ emitted = <<>>
            /\ pc # "exited"
            /\ \A q \in 1..Len(workers) : q > p => workers[q].gpu # workers[p].gpu
            /\ \A j \in 1..Len(chunks) : chunks[j] # ChunkOf(p)
            /\ WorkersOf(ChunkOf(p)) = {p}

\* C25: worker-mode argument check. When run_bscan_gpu_cpu.py is called with
\* --worker and --gpu is absent or empty, or --range is absent, main() exits
\* with status 2 as its first step: the engine is not run for any index, no
\* queue of chunks is built, no child is launched, no merge or plot requested.
C25_WorkerArgumentCheck ==
    (args.mode = "worker" /\ pc # "start"
        /\ (args.gpu = "None" \/ args.gpu = "" \/ ~args.range_given)) =>
        /\ pc = "exited" /\ exit_code = 2
        /\ workers = <<>>
        /\ chunks = <<>> /\ active = <<>>
        /\ emitted = <<>>

\* reached: a worker called with a device and no range has exited with 2
C25_Witness ==
    /\ args.mode = "worker" /\ args.gpu = "0" /\ ~args.range_given
    /\ args.runs >= 1 /\ args.infile_ok
    /\ pc = "exited" /\ exit_code = 2

\* a request of this kind has been made through sh()
Requested(what) == \E j \in 1..Len(emitted) : emitted[j] = what

\* C26: a failed mute estimate is not fatal. In run_bscan_mute_gpus.py, once
\* main() has ended after simulate and merge both returned 0: without
\* --mute_ns, if the estimator exited non-zero or its output held no value
\* (neither pattern matched), plot was requested, without a --mute_ns
\* argument; with --mute_ns, the estimator was never called and plot was
\* requested with that value. And plot is only ever requested after simulate
\* and merge both returned 0.
C26_MuteFailureNotFatal ==
    args.mode = "mute" =>
        /\ Requested("plot") =>
              /\ emitted = <<"simulate", "merge", "plot">>
              /\ sh_ret[1] = 0 /\ sh_ret[2] = 0
        /\ (pc = "exited" /\ Len(sh_ret) >= 2 /\ sh_ret[1] = 0 /\ sh_ret[2] = 0) =>
              /\ (args.mute_ns = "None" /\ estimate \in {"failed", "no_match"}) =>
                    Requested("plot") /\ plot_cmd = <<>>
              /\ args.mute_ns # "None" =>
                    /\ estimate = "not_called"
                    /\ Requested("plot") /\ plot_cmd = <<"--mute_ns", "given">>

\* reached: simulate and merge returned 0, the estimator exited non-zero, and
\* plot was requested without a --mute_ns argument and returned 0
C26_Witness ==
    /\ args.mode = "mute" /\ args.mute_ns = "None"
    /\ estimate = "failed"
    /\ emitted = <<"simulate", "merge", "plot">>
    /\ plot_cmd = <<>>
    /\ pc = "exited" /\ exit_code = 0

====
